---- MODULE Spec2Model ----
(***************************************************************************)
(* Model of src/main.py: the Hacker News ingestion / dedup / publish job.  *)
(* One run of main() is a sequence of steps (Fetch, Select, ProcessItem*,  *)
(* Publish, WriteFeed, Prune); runs never overlap.  The two files on disk  *)
(* (processed_ids.txt and the RSS document) are the only state carried     *)
(* between runs.                                                           *)
(***************************************************************************)
EXTENDS Integers, Sequences, FiniteSets

\* ---------------------------------------------------------------- bounds
\* Number of distinct aggregator ids (the ids are 8 .. 8+NumIds-1, so that
\* one- and two-digit ids both occur).
NumIds == 4
\* Longest aggregator list (topstories.json) the environment returns.
MaxListLen == 3
\* Number of runs of main() explored.
MaxRuns == 2
\* Longest dedup log the pure-function specification SpecPrune starts from.
MaxLogLen == 5
\* Longest aggregator list the specification SpecSelect starts from.
MaxSelectLen == 4

\* ------------------------------------------------------ program constants
\* main.py:25-27, scaled down (30 / 50 / 5000 in the source); the order
\* MAX_STORIES_TO_FETCH <= MAX_FEED_ENTRIES, MAX_PROCESSED_IDS is kept.
MAX_STORIES_TO_FETCH == 2
MAX_FEED_ENTRIES == 3
MAX_PROCESSED_IDS == 3
\* main.py:115, the literal 200 of the summarizer guard.
MIN_CONTENT_LEN == 200

Ids == 8 .. (8 + NumIds - 1)

\* ------------------------------------------------------------ sequences
Min(a, b) == IF a < b THEN a ELSE b

\* s[:n]
FirstN(s, n) == SubSeq(s, 1, Min(n, Len(s)))

\* s[n:]
DropN(s, n) == IF n >= Len(s) THEN <<>> ELSE SubSeq(s, n + 1, Len(s))

\* s[-n:]  (n > 0)
LastN(s, n) == IF Len(s) <= n THEN s ELSE SubSeq(s, Len(s) - n + 1, Len(s))

Range(s) == {s[k] : k \in DOMAIN s}

RECURSIVE SeqsUpTo(_, _)
\* all sequences over S of length <= n
SeqsUpTo(S, n) ==
    IF n = 0 THEN {<<>>}
    ELSE LET shorter == SeqsUpTo(S, n - 1)
         IN  shorter \cup {Append(s, x) : s \in {t \in shorter : Len(t) = n - 1}, x \in S}

\* --------------------------------------------------- id strings and lines
\* A Python str holding an id or a line of the log is a sequence of characters.
DigitChars == <<"0", "1", "2", "3", "4", "5", "6", "7", "8", "9">>
Whitespace == {" ", "\n", "\t"}

RECURSIVE str(_)
\* str(story_id) for a non-negative integer: its decimal digits
str(n) == IF n < 10 THEN <<DigitChars[n + 1]>>
          ELSE str(n \div 10) \o <<DigitChars[(n % 10) + 1]>>

RECURSIVE lstrip(_)
lstrip(s) == IF s # <<>> /\ Head(s) \in Whitespace THEN lstrip(Tail(s)) ELSE s

RECURSIVE rstrip(_)
rstrip(s) == IF s # <<>> /\ s[Len(s)] \in Whitespace
             THEN rstrip(SubSeq(s, 1, Len(s) - 1)) ELSE s

\* line.strip()
strip(s) == rstrip(lstrip(s))

\* f"{story_id}\n"
IdLine(sid) == sid \o <<"\n">>

\* ------------------------------------------------------------ page text
\* The text scrape_article_content returns is long (the guard is at 200
\* characters), so it is kept run-length encoded: a sequence of runs, each
\* n >= 1 characters that are all whitespace (ws) or all non-whitespace.
Run(ws, n) == [ws |-> ws, n |-> n]

RECURSIVE len(_)
\* len(content)
len(t) == IF t = <<>> THEN 0 ELSE Head(t).n + len(Tail(t))

RECURSIVE text_lstrip(_)
text_lstrip(t) == IF t # <<>> /\ Head(t).ws THEN text_lstrip(Tail(t)) ELSE t

RECURSIVE text_rstrip(_)
text_rstrip(t) == IF t # <<>> /\ t[Len(t)].ws
                  THEN text_rstrip(SubSeq(t, 1, Len(t) - 1)) ELSE t

\* content.strip()
text_strip(t) == text_rstrip(text_lstrip(t))

\* What scrape_article_content can return: None (non-HTML, or any exception),
\* or a string.
NoContent == [none |-> TRUE, text |-> <<>>]
SomeContent(t) == [none |-> FALSE, text |-> t]

ScrapeResults ==
    { NoContent,
      SomeContent(<<>>),
      SomeContent(<<Run(TRUE, 60), Run(FALSE, 150), Run(TRUE, 60)>>),
      SomeContent(<<Run(FALSE, 199)>>),
      SomeContent(<<Run(FALSE, 100), Run(TRUE, 1), Run(FALSE, 99)>>) }

\* Python truthiness of the value returned by scrape_article_content
Truthy(c) == ~c.none /\ len(c.text) > 0

\* ------------------------------------------------------------- the files
\* A file on disk: absent, or a sequence of lines (processed_ids.txt).
NoIdsFile == [exists |-> FALSE, lines |-> <<>>]

\* The RSS document on disk: absent, or a sequence of entries, newest first;
\* parsable is FALSE for a document a failed write left incomplete.
NoRssFile == [exists |-> FALSE, parsable |-> FALSE, entries |-> <<>>]

\* ------------------------------------------------------------ Dedup Store
get_processed_ids(f) ==
    IF ~f.exists THEN {} ELSE {strip(f.lines[k]) : k \in DOMAIN f.lines}

\* Faulty variant: the log is opened with 'w', so each id replaces the log.
add_processed_id_overwrites(f, story_id) ==
    [exists |-> TRUE, lines |-> <<IdLine(story_id)>>]

add_processed_id(f, story_id) ==
    [exists |-> TRUE, lines |-> Append(f.lines, IdLine(story_id))]

\* Faulty variant: the rewrite is left out.
prune_without_rewrite(f) == f

\* Faulty variant: lines[:MAX_PROCESSED_IDS], the oldest lines, are kept.
prune_keeps_head(f) ==
    IF ~f.exists THEN f
    ELSE IF Len(f.lines) > MAX_PROCESSED_IDS
         THEN [exists |-> TRUE, lines |-> FirstN(f.lines, MAX_PROCESSED_IDS)]
         ELSE f

\* prune_processed_ids when no step of it raises
prune_processed_ids(f) ==
    IF ~f.exists THEN f
    ELSE IF Len(f.lines) > MAX_PROCESSED_IDS
         THEN [exists |-> TRUE, lines |-> LastN(f.lines, MAX_PROCESSED_IDS)]
         ELSE f

\* The files prune_processed_ids can leave behind when a step of it raises
\* (the except clause logs and returns): reading raised, or opening for
\* writing raised, and the file is as it was; or the rewrite raised after
\* open(..., 'w') truncated the file and only the first k lines were written.
prune_failures(f) ==
    IF ~f.exists THEN {}
    ELSE {f} \cup
         IF Len(f.lines) > MAX_PROCESSED_IDS
         THEN {[exists |-> TRUE, lines |-> FirstN(LastN(f.lines, MAX_PROCESSED_IDS), k)] :
                  k \in 0 .. MAX_PROCESSED_IDS}
         ELSE {}

\* ----------------------------------------------------------- Story Source
\* The aggregator's answer to GET /topstories.json: a RequestException, or a
\* list of numeric ids.
TopStoriesError == [error |-> TRUE, ids |-> <<>>]
\* no request is under way
NoResponse == TopStoriesError
TopStoriesResponses ==
    {TopStoriesError} \cup {[error |-> FALSE, ids |-> a] : a \in SeqsUpTo(Ids, MaxListLen)}

\* Faulty variant: the list is not filtered by the dedup set.
get_top_story_ids_unfiltered(response, processed) ==
    IF response.error THEN <<>>
    ELSE FirstN([k \in DOMAIN response.ids |-> str(response.ids[k])], MAX_STORIES_TO_FETCH)

\* Faulty variant: the list is cut to MAX_STORIES_TO_FETCH before it is filtered.
get_top_story_ids_truncates_first(response, processed) ==
    IF response.error THEN <<>>
    ELSE LET all_ids == [k \in DOMAIN response.ids |-> str(response.ids[k])]
         IN  SelectSeq(FirstN(all_ids, MAX_STORIES_TO_FETCH),
                       LAMBDA story_id : story_id \notin processed)

get_top_story_ids(response, processed_ids) ==
    IF response.error THEN <<>>
    ELSE LET all_ids == [k \in DOMAIN response.ids |-> str(response.ids[k])]
             new_story_ids == SelectSeq(all_ids, LAMBDA story_id : story_id \notin processed_ids)
         IN  FirstN(new_story_ids, MAX_STORIES_TO_FETCH)

\* The aggregator's answer to GET /item/<id>.json: a RequestException, JSON
\* null, or an object with some of the fields title and url.
ItemResponses ==
    { [error |-> TRUE,  null |-> FALSE, fields |-> {}],
      [error |-> FALSE, null |-> TRUE,  fields |-> {}],
      [error |-> FALSE, null |-> FALSE, fields |-> {}],
      [error |-> FALSE, null |-> FALSE, fields |-> {"title"}],
      [error |-> FALSE, null |-> FALSE, fields |-> {"title", "url"}] }

NoDetails == [none |-> TRUE, id |-> <<>>]

\* The title and url of a story are functions of its id and do not steer the
\* program; the record keeps the id only.
get_story_details(story_id, response) ==
    IF ~response.error /\ ~response.null /\ "url" \in response.fields
    THEN [none |-> FALSE, id |-> story_id]
    ELSE NoDetails

\* -------------------------------------------------------------- Summarizer
TOO_SHORT == "content too short"
SERVICE_FAILED == "summarization service failed"
GENERATED == "generated summary"

\* Faulty variant: the guard measures the text without stripping it.
calls_gemini_unstripped(content) ==
    ~(len(content) = 0 \/ len(content) < MIN_CONTENT_LEN)

\* TRUE when summarize_with_gemini gets past its guard to model.generate_content
calls_gemini(content) ==
    ~(len(content) = 0 \/ len(text_strip(content)) < MIN_CONTENT_LEN)

\* gemini_ok: whether model.generate_content / response.text raise
summarize_with_gemini(content, gemini_ok) ==
    IF ~calls_gemini(content)
    THEN TOO_SHORT
    ELSE IF gemini_ok THEN GENERATED ELSE SERVICE_FAILED

\* --------------------------------------------------------------- Feed Store
RECURSIVE add_entries(_, _)
\* the loop of update_rss_feed: fg.add_entry(order='prepend') per story
add_entries(entries, new_stories) ==
    IF new_stories = <<>> THEN entries
    ELSE add_entries(<<Head(new_stories)>> \o entries, Tail(new_stories))

\* Faulty variant: the trim is left out.
trim_nothing(entries) == entries

\* if len(fg.entry()) > MAX_FEED_ENTRIES:
\*     fg.entry(fg.entry()[MAX_FEED_ENTRIES:], replace=True)
trim_entries(entries) ==
    IF Len(entries) > MAX_FEED_ENTRIES THEN DropN(entries, MAX_FEED_ENTRIES) ELSE entries

\* Faulty variant: a load that raises still leaves the file's entries in fg.
load_entries_despite_failure(f, load_ok) ==
    IF f.exists THEN f.entries ELSE <<>>

\* The entries fg holds after the load attempt: those of the file when it
\* exists and fg.rss_file(..., load=True) returns, none when the file is
\* absent or the load raises.
load_entries(f, load_ok) ==
    IF f.exists /\ load_ok THEN f.entries ELSE <<>>

\* the document update_rss_feed hands to the final fg.rss_file
update_rss_feed(f, new_stories, load_ok) ==
    trim_entries(add_entries(load_entries(f, load_ok), new_stories))

\* -------------------------------------------------------------------- state
VARIABLES
    idsFile,      \* processed_ids.txt
    rssFile,      \* hacker_news_summary_zh.xml
    pc,           \* where main() is: idle, loop, publish, prune, done, aborted
    run,          \* number of runs started
    processed_ids,            \* main: the set loaded by get_processed_ids
    top_stories,              \* get_top_story_ids: the aggregator's answer
    excluded,                 \* the aggregator's ids that the dedup set filtered out
    story_ids,                \* main: the candidates of this run
    i,                        \* main: number of candidates already processed
    newly_summarized_stories, \* main: the batch of this run
    last,         \* what happened to the candidate processed last
    sleeps,       \* number of time.sleep(5) calls of this run
    pruned,       \* number of prune_processed_ids calls of this run
    prune_raised, \* whether the last prune_processed_ids call caught an exception
    merged,       \* update_rss_feed: fg's entries after the loop, before the trim
    load_result,  \* update_rss_feed: none (not called), absent, failed or loaded
    fit,          \* per candidate processed: had it a url and a non-empty text
    idsAtStart,   \* processed_ids.txt as it was when this run loaded it
    rssAtStart,   \* the RSS document as it was when this run started
    pin, pout, pout2, ppc   \* SpecPrune: a log, prune of it, prune of that

mainVars == <<idsFile, rssFile, pc, run, processed_ids, top_stories, excluded,
              story_ids, i,
              newly_summarized_stories, last, sleeps, pruned, prune_raised,
              merged, load_result, fit, idsAtStart, rssAtStart>>
pruneVars == <<pin, pout, pout2, ppc>>
vars == <<mainVars, pruneVars>>

NoLast == [id |-> <<>>, item |-> [error |-> TRUE, null |-> FALSE, fields |-> {}],
           scraped |-> FALSE, page |-> NoContent, gemini |-> "not called"]

MainInit ==
    /\ idsFile = NoIdsFile
    /\ rssFile = NoRssFile
    /\ pc = "idle"
    /\ run = 0
    /\ processed_ids = {}
    /\ top_stories = NoResponse
    /\ excluded = {}
    /\ story_ids = <<>>
    /\ i = 0
    /\ newly_summarized_stories = <<>>
    /\ last = NoLast
    /\ sleeps = 0
    /\ pruned = 0
    /\ prune_raised = FALSE
    /\ merged = <<>>
    /\ load_result = "none"
    /\ fit = <<>>
    /\ idsAtStart = NoIdsFile
    /\ rssAtStart = NoRssFile

PruneIdle ==
    /\ pin = NoIdsFile
    /\ pout = NoIdsFile
    /\ pout2 = NoIdsFile
    /\ ppc = "off"

Init == MainInit /\ PruneIdle

\* ------------------------------------------------------------------ main()
\* main.py:162-166 and 66-71: a run starts; it loads the dedup set and asks
\* the aggregator for its list.
Fetch ==
    /\ pc \in {"idle", "done", "aborted"}
    /\ run < MaxRuns
    /\ run' = run + 1
    /\ pc' = "fetched"
    /\ processed_ids' = get_processed_ids(idsFile)
    /\ top_stories' \in TopStoriesResponses
    /\ story_ids' = <<>>
    /\ excluded' = {}
    /\ i' = 0
    /\ newly_summarized_stories' = <<>>
    /\ last' = NoLast
    /\ sleeps' = 0
    /\ pruned' = 0
    /\ prune_raised' = FALSE
    /\ merged' = <<>>
    /\ load_result' = "none"
    /\ fit' = <<>>
    /\ idsAtStart' = idsFile
    /\ rssAtStart' = rssFile
    /\ UNCHANGED <<idsFile, rssFile, pruneVars>>

\* main.py:71-77 and 167-175: get_top_story_ids returns the candidates (its
\* locals end with it); with no candidate the run goes straight to
\* prune_processed_ids (line 170).
Select ==
    /\ pc = "fetched"
    /\ story_ids' = get_top_story_ids(top_stories, processed_ids)
    /\ excluded' = {str(top_stories.ids[k]) : k \in DOMAIN top_stories.ids} \cap processed_ids
    /\ top_stories' = NoResponse
    /\ pc' = IF story_ids' = <<>> THEN "prune" ELSE "loop"
    /\ UNCHANGED <<idsFile, rssFile, run, processed_ids, i, newly_summarized_stories,
                   last, sleeps, pruned, prune_raised, merged, load_result, fit,
                   idsAtStart, rssAtStart, pruneVars>>

\* Faulty variant: add_processed_id is reached although the content is absent.
process_story_records_skipped(story_id, response, page, gemini_ok) ==
    LET details == get_story_details(story_id, response)
    IN  IF details.none
        THEN [story |-> <<>>, record |-> <<>>, scraped |-> FALSE, summarized |-> FALSE]
        ELSE IF ~Truthy(page)
        THEN [story |-> <<>>, record |-> <<details.id>>, scraped |-> TRUE,
              summarized |-> FALSE]
        ELSE [story |-> <<[id |-> details.id,
                           summary |-> summarize_with_gemini(page.text, gemini_ok)]>>,
              record |-> <<details.id>>, scraped |-> TRUE, summarized |-> TRUE]

\* Faulty variant: a story whose summary is the service-failed placeholder is dropped.
process_story_drops_failed(story_id, response, page, gemini_ok) ==
    LET details == get_story_details(story_id, response)
    IN  IF details.none
        THEN [story |-> <<>>, record |-> <<>>, scraped |-> FALSE, summarized |-> FALSE]
        ELSE IF ~Truthy(page)
        THEN [story |-> <<>>, record |-> <<>>, scraped |-> TRUE, summarized |-> FALSE]
        ELSE IF summarize_with_gemini(page.text, gemini_ok) = SERVICE_FAILED
        THEN [story |-> <<>>, record |-> <<>>, scraped |-> TRUE, summarized |-> TRUE]
        ELSE [story |-> <<[id |-> details.id,
                           summary |-> summarize_with_gemini(page.text, gemini_ok)]>>,
              record |-> <<details.id>>, scraped |-> TRUE, summarized |-> TRUE]

\* main.py:178-189: the body of the loop for one candidate.  story is what is
\* appended to the batch and record what is appended to the dedup log (each
\* empty or one element); scraped and summarized tell which collaborators
\* were asked.
process_story(story_id, response, page, gemini_ok) ==
    LET details == get_story_details(story_id, response)
    IN  IF details.none
        THEN [story |-> <<>>, record |-> <<>>, scraped |-> FALSE, summarized |-> FALSE]
        ELSE IF ~Truthy(page)
        THEN [story |-> <<>>, record |-> <<>>, scraped |-> TRUE, summarized |-> FALSE]
        ELSE [story |-> <<[id |-> details.id,
                           summary |-> summarize_with_gemini(page.text, gemini_ok)]>>,
              record |-> <<details.id>>, scraped |-> TRUE, summarized |-> TRUE]

\* Faulty variant: the delay also follows the last candidate.
sleeps_after_each(k, n) == 1

\* main.py:191-192: the number of time.sleep(5) calls after the candidate at
\* index k (from 0) of n
sleeps_after(k, n) == IF k < n - 1 THEN 1 ELSE 0

\* main.py:176-192: one iteration of the loop over story_ids.  last keeps
\* what the collaborators answered for this candidate.
ProcessItem ==
    /\ pc = "loop"
    /\ i < Len(story_ids)
    /\ \E response \in ItemResponses, page \in ScrapeResults, gemini_ok \in BOOLEAN :
         LET story_id == story_ids[i + 1]
             r == process_story(story_id, response, page, gemini_ok)
             called == r.summarized /\ calls_gemini(page.text)
         IN  /\ newly_summarized_stories' = newly_summarized_stories \o r.story
             /\ idsFile' = IF r.record = <<>> THEN idsFile
                           ELSE add_processed_id(idsFile, r.record[1])
             /\ last' = [id |-> story_id,
                         item |-> response,
                         scraped |-> r.scraped,
                         page |-> IF r.scraped THEN page ELSE NoContent,
                         gemini |-> IF ~called THEN "not called"
                                    ELSE IF gemini_ok THEN "ok" ELSE "error"]
             /\ fit' = Append(fit, "url" \in response.fields /\ ~response.error
                                    /\ ~response.null /\ Truthy(page))
    /\ sleeps' = sleeps + sleeps_after(i, Len(story_ids))
    /\ i' = i + 1
    /\ pc' = IF i + 1 < Len(story_ids) THEN "loop" ELSE "publish"
    /\ UNCHANGED <<rssFile, run, processed_ids, top_stories, excluded, story_ids, pruned,
                   prune_raised, merged, load_result, idsAtStart, rssAtStart, pruneVars>>

\* Faulty variant: update_rss_feed is called whether or not the batch is empty.
Publish_unconditional ==
    /\ pc = "publish"
    /\ \E load_ok \in BOOLEAN, open_ok \in BOOLEAN :
         /\ load_ok => rssFile.exists /\ rssFile.parsable
         /\ load_result' = IF ~rssFile.exists THEN "absent"
                           ELSE IF load_ok THEN "loaded" ELSE "failed"
         /\ merged' = add_entries(load_entries(rssFile, load_ok), newly_summarized_stories)
         /\ IF open_ok
            THEN /\ rssFile' = [exists |-> TRUE, parsable |-> FALSE, entries |-> <<>>]
                 /\ pc' = "writing"
            ELSE /\ rssFile' = rssFile
                 /\ pc' = "aborted"
    /\ last' = NoLast
    /\ UNCHANGED <<idsFile, run, processed_ids, top_stories, excluded, story_ids, i,
                   newly_summarized_stories, sleeps, pruned, prune_raised, fit, idsAtStart,
                   rssAtStart, pruneVars>>

\* main.py:194-197 with update_rss_feed (128-156): nothing to publish, or
\* load, merge and trim, and the final fg.rss_file opens RSS_FILE_PATH itself
\* for writing: from then until the write is complete the file on disk is an
\* incomplete document.  Neither the open nor the write is inside a try: when
\* one raises, main() ends there.
Publish ==
    /\ pc = "publish"
    /\ IF newly_summarized_stories = <<>>
       THEN /\ pc' = "prune"
            /\ UNCHANGED <<rssFile, merged, load_result>>
       ELSE \E load_ok \in BOOLEAN, open_ok \in BOOLEAN :
              /\ load_ok => rssFile.exists /\ rssFile.parsable
              /\ load_result' = IF ~rssFile.exists THEN "absent"
                                ELSE IF load_ok THEN "loaded" ELSE "failed"
              /\ merged' = add_entries(load_entries(rssFile, load_ok),
                                       newly_summarized_stories)
              /\ IF open_ok
                 THEN /\ rssFile' = [exists |-> TRUE, parsable |-> FALSE, entries |-> <<>>]
                      /\ pc' = "writing"
                 ELSE /\ rssFile' = rssFile
                      /\ pc' = "aborted"
    /\ last' = NoLast
    /\ UNCHANGED <<idsFile, run, processed_ids, top_stories, excluded, story_ids, i,
                   newly_summarized_stories, sleeps, pruned, prune_raised, fit, idsAtStart,
                   rssAtStart, pruneVars>>

\* main.py:156-157: the write of the trimmed document completes, or raises and
\* leaves the incomplete document behind.
WriteFeed ==
    /\ pc = "writing"
    /\ \/ /\ rssFile' = [exists |-> TRUE, parsable |-> TRUE,
                         entries |-> trim_entries(merged)]
          /\ pc' = "prune"
       \/ /\ rssFile' = rssFile
          /\ pc' = "aborted"
    /\ UNCHANGED <<idsFile, run, processed_ids, top_stories, excluded, story_ids, i,
                   newly_summarized_stories, last, sleeps, pruned, prune_raised, merged,
                   load_result, fit, idsAtStart, rssAtStart, pruneVars>>

\* main.py:170 and 199: prune_processed_ids (45-61), which catches whatever
\* its file operations raise.
Prune ==
    /\ pc = "prune"
    /\ \/ /\ idsFile' = prune_processed_ids(idsFile)
          /\ prune_raised' = FALSE
       \/ /\ idsFile' \in prune_failures(idsFile)
          /\ prune_raised' = TRUE
    /\ pruned' = pruned + 1
    /\ pc' = "done"
    /\ UNCHANGED <<rssFile, run, processed_ids, top_stories, excluded, story_ids, i,
                   newly_summarized_stories, last, sleeps, merged, load_result, fit,
                   idsAtStart, rssAtStart, pruneVars>>

Next == Fetch \/ Select \/ ProcessItem \/ Publish \/ WriteFeed \/ Prune

Spec == Init /\ [][Next]_vars

\* ------------------------------------------- prune_processed_ids, on its own
\* Every log of at most MaxLogLen lines, each the line of an id.
PruneLogs ==
    {NoIdsFile} \cup
    {[exists |-> TRUE, lines |-> l] : l \in SeqsUpTo({IdLine(str(n)) : n \in Ids}, MaxLogLen)}

InitPrune ==
    /\ MainInit
    /\ pin \in PruneLogs
    /\ pout = NoIdsFile
    /\ pout2 = NoIdsFile
    /\ ppc = "start"

PruneOnce ==
    /\ ppc = "start"
    /\ pout' = prune_processed_ids(pin)
    /\ ppc' = "once"
    /\ UNCHANGED <<mainVars, pin, pout2>>

PruneAgain ==
    /\ ppc = "once"
    /\ pout2' = prune_processed_ids(pout)
    /\ ppc' = "twice"
    /\ UNCHANGED <<mainVars, pin, pout>>

NextPrune == PruneOnce \/ PruneAgain

SpecPrune == InitPrune /\ [][NextPrune]_vars

\* ------------------------------------ runs whose aggregator lists repeat no id
NoRepeat(a) == \A j, k \in DOMAIN a : j # k => a[j] # a[k]

FetchNoRepeat == Fetch /\ NoRepeat(top_stories'.ids)

NextNoRepeat == FetchNoRepeat \/ Select \/ ProcessItem \/ Publish \/ WriteFeed \/ Prune

SpecNoRepeat == Init /\ [][NextNoRepeat]_vars

\* ---------------------------------------------- get_top_story_ids, on its own
RECURSIVE LogOf(_)
\* the lines add_processed_id writes for the ids of N, in increasing order
LogOf(N) ==
    IF N = {} THEN <<>>
    ELSE LET m == CHOOSE x \in N : \A y \in N : x <= y
         IN  <<IdLine(str(m))>> \o LogOf(N \ {m})

SelectResponses ==
    {TopStoriesError} \cup {[error |-> FALSE, ids |-> a] : a \in SeqsUpTo(Ids, MaxSelectLen)}

\* A run that has loaded some dedup log and received some aggregator answer.
InitSelect ==
    /\ \E N \in SUBSET Ids :
         idsFile = IF N = {} THEN NoIdsFile ELSE [exists |-> TRUE, lines |-> LogOf(N)]
    /\ rssFile = NoRssFile
    /\ pc = "fetched"
    /\ run = 1
    /\ processed_ids = get_processed_ids(idsFile)
    /\ top_stories \in SelectResponses
    /\ excluded = {}
    /\ story_ids = <<>>
    /\ i = 0
    /\ newly_summarized_stories = <<>>
    /\ last = NoLast
    /\ sleeps = 0
    /\ pruned = 0
    /\ prune_raised = FALSE
    /\ merged = <<>>
    /\ load_result = "none"
    /\ fit = <<>>
    /\ idsAtStart = idsFile
    /\ rssAtStart = NoRssFile
    /\ PruneIdle

SpecSelect == InitSelect /\ [][Select]_vars

\* ------------------------------------------------------------------ claims
Reverse(s) == [k \in 1 .. Len(s) |-> s[Len(s) + 1 - k]]

IsPrefix(s, t) == Len(s) <= Len(t) /\ \A k \in DOMAIN s : s[k] = t[k]

\* this run wrote the feed document and has not yet pruned
Published == pc = "prune" /\ newly_summarized_stories # <<>>

\* C1: the feed document on disk never has more than MAX_FEED_ENTRIES
\* entries, whatever runs came before, starting from no document.
C1_FeedBounded == rssFile.exists => Len(rssFile.entries) <= MAX_FEED_ENTRIES

\* an update whose merged document was over the cap has been written
C1_Witness == Published /\ rssFile.parsable /\ Len(merged) > MAX_FEED_ENTRIES

\* C2 as stated: after an update the document starts with the batch in
\* reverse processing order, and what follows are the entries the document
\* held before, in their order (as many as are kept).
C2_Original ==
    Published =>
        LET n == Len(newly_summarized_stories)
        IN  /\ Len(rssFile.entries) >= n
            /\ SubSeq(rssFile.entries, 1, n) = Reverse(newly_summarized_stories)
            /\ IsPrefix(DropN(rssFile.entries, n), rssAtStart.entries)

\* C3 as stated: the document written is the first MAX_FEED_ENTRIES entries
\* of the merged document (all of it when it is within the cap).
C3_Original == Published => rssFile.entries = FirstN(merged, MAX_FEED_ENTRIES)

\* C4 as stated: at the end of every run the dedup log has at most
\* MAX_PROCESSED_IDS lines.
C4_Original == pc = "done" => Len(idsFile.lines) <= MAX_PROCESSED_IDS

\* C4, amended: at the end of every run whose prune_processed_ids raised
\* nothing, the dedup log has at most MAX_PROCESSED_IDS lines.
C4_LogBoundedAfterPrune ==
    (pc = "done" /\ ~prune_raised) => Len(idsFile.lines) <= MAX_PROCESSED_IDS

\* a run ended whose prune had lines to drop and raised nothing
C4_Witness ==
    /\ pc = "done"
    /\ ~prune_raised
    /\ Len(idsAtStart.lines) + Len(newly_summarized_stories) > MAX_PROCESSED_IDS

\* C5: prune keeps a suffix: a log over the cap becomes its last
\* MAX_PROCESSED_IDS lines in their order, a log within the cap is unchanged,
\* and pruning the result again changes nothing.
C5_PruneKeepsSuffix ==
    /\ ppc \in {"once", "twice"} =>
         IF Len(pin.lines) > MAX_PROCESSED_IDS
         THEN /\ pout.exists
              /\ Len(pout.lines) = MAX_PROCESSED_IDS
              /\ \A k \in 1 .. MAX_PROCESSED_IDS :
                     pout.lines[k] = pin.lines[Len(pin.lines) - MAX_PROCESSED_IDS + k]
         ELSE pout = pin
    /\ ppc = "twice" => pout2 = pout

\* a log over the cap has been pruned twice
C5_Witness == ppc = "twice" /\ Len(pin.lines) > MAX_PROCESSED_IDS + 1

\* C6 as stated: a run that has ended, however it ended, has pruned exactly once.
C6_Original == pc \in {"done", "aborted"} => pruned = 1

\* C7: no candidate of a run is in the dedup set the run loaded, nor is it an
\* id whose line was in the log when the run started; and a line leaves the
\* log only in prune_processed_ids.
C7_NotReselected ==
    pc \in {"loop", "publish", "writing", "prune", "done", "aborted"} =>
        \A k \in DOMAIN story_ids :
            /\ story_ids[k] \notin processed_ids
            /\ \A n \in Ids : IdLine(str(n)) \in Range(idsAtStart.lines)
                                 => story_ids[k] # str(n)

C7_OnlyPruneEvicts ==
    \A line \in Range(idsFile.lines) : line \notin Range(idsFile'.lines) => pc = "prune"

C7_Dedup == []C7_NotReselected /\ [][C7_OnlyPruneEvicts]_vars

\* a run selected candidates from a list that offered already processed ids
C7_Witness == pc = "loop" /\ excluded # {} /\ run > 1

\* C8 as stated: at the end of a run every id the run appended to the dedup
\* log (and that is still in it) has its entry in the feed document.
C8_Original ==
    pc = "done" =>
        \A k \in DOMAIN newly_summarized_stories :
            IdLine(newly_summarized_stories[k].id) \in Range(idsFile.lines)
                => \E j \in DOMAIN rssFile.entries :
                       rssFile.entries[j].id = newly_summarized_stories[k].id

\* the metadata fetch yields absent: the request failed, or the item is null
\* or has no url
MetaAbsent(item) == item.error \/ item.null \/ "url" \notin item.fields

\* the extraction was asked and yields absent or empty
ContentAbsent(l) == l.scraped /\ (l.page.none \/ len(l.page.text) = 0)

\* C9: an iteration whose metadata fetch or extraction yields absent leaves
\* the batch, the dedup log and the feed as they were, and the run goes on to
\* the next candidate (to the publish step after the last).
C9_step ==
    (pc = "loop" /\ i' = i + 1 /\ (MetaAbsent(last'.item) \/ ContentAbsent(last')))
        => /\ newly_summarized_stories' = newly_summarized_stories
           /\ idsFile' = idsFile
           /\ rssFile' = rssFile
           /\ story_ids' = story_ids
           /\ last'.id = story_ids[i + 1]
           /\ pc' = IF i' < Len(story_ids) THEN "loop" ELSE "publish"

C9_SkipIsolated == [][C9_step]_vars

\* a candidate with a url whose extraction was absent was skipped, and
\* another candidate follows
C9_Witness ==
    /\ pc = "loop"
    /\ i = 1
    /\ ~MetaAbsent(last.item)
    /\ ContentAbsent(last)
    /\ IdLine(last.id) \notin Range(idsFile.lines)

\* C10: an iteration whose summarization call failed appends the story, with
\* the service-failed placeholder as summary, to the batch and its id to the
\* dedup log.
C10_step ==
    (pc = "loop" /\ i' = i + 1 /\ last'.gemini = "error")
        => /\ newly_summarized_stories' =
                 Append(newly_summarized_stories,
                        [id |-> story_ids[i + 1], summary |-> SERVICE_FAILED])
           /\ idsFile'.exists
           /\ idsFile'.lines = Append(idsFile.lines, IdLine(story_ids[i + 1]))

C10_FailureDegrades == [][C10_step]_vars

\* a story whose summarization call failed is in the batch and in the log
C10_Witness ==
    /\ pc \in {"loop", "publish"}
    /\ last.gemini = "error"
    /\ newly_summarized_stories # <<>>
    /\ newly_summarized_stories[Len(newly_summarized_stories)] =
           [id |-> last.id, summary |-> SERVICE_FAILED]
    /\ IdLine(last.id) \in Range(idsFile.lines)

\* C11: the summarization service is called only for a text of at least
\* MIN_CONTENT_LEN characters once stripped; a candidate whose text is
\* shorter gets the non-empty too-short placeholder, joins the batch and has
\* its id appended to the dedup log.
C11_step ==
    (pc = "loop" /\ i' = i + 1) =>
        /\ last'.gemini # "not called" =>
               /\ last'.scraped
               /\ len(last'.page.text) > 0
               /\ len(text_strip(last'.page.text)) >= MIN_CONTENT_LEN
        /\ (/\ ~MetaAbsent(last'.item)
            /\ last'.scraped
            /\ len(last'.page.text) > 0
            /\ len(text_strip(last'.page.text)) < MIN_CONTENT_LEN) =>
               /\ last'.gemini = "not called"
               /\ TOO_SHORT # ""
               /\ newly_summarized_stories' =
                      Append(newly_summarized_stories,
                             [id |-> story_ids[i + 1], summary |-> TOO_SHORT])
               /\ idsFile'.lines = Append(idsFile.lines, IdLine(story_ids[i + 1]))

C11_SummarizerGuard == [][C11_step]_vars

\* a text of 270 characters, 150 once stripped, was given the placeholder
\* without a call
C11_Witness ==
    /\ pc \in {"loop", "publish"}
    /\ last.scraped
    /\ len(last.page.text) >= MIN_CONTENT_LEN
    /\ len(text_strip(last.page.text)) < MIN_CONTENT_LEN
    /\ last.gemini = "not called"
    /\ newly_summarized_stories # <<>>
    /\ newly_summarized_stories[Len(newly_summarized_stories)] =
           [id |-> last.id, summary |-> TOO_SHORT]

\* C12: until update_rss_feed is called the feed document is as the run found
\* it, and update_rss_feed is called only with a non-empty batch: a run
\* without candidates, or whose candidates were all skipped, ends with the
\* document unchanged.
C12_FeedUntouched ==
    /\ pc \in {"fetched", "loop", "publish"} => rssFile = rssAtStart /\ load_result = "none"
    /\ load_result # "none" => newly_summarized_stories # <<>>
    /\ (pc \in {"prune", "done"} /\ newly_summarized_stories = <<>>) => rssFile = rssAtStart

\* a run whose candidates were all skipped ended, and the document an
\* earlier run wrote is still there
C12_Witness ==
    /\ pc = "done"
    /\ story_ids # <<>>
    /\ newly_summarized_stories = <<>>
    /\ rssFile.exists /\ rssFile.parsable /\ rssFile.entries # <<>>

\* the positions of the aggregator list A whose id is not in the set E
Kept(A, E) == {j \in DOMAIN A : str(A[j]) \notin E}

\* C13: get_top_story_ids returns the ids of the first MAX_STORIES_TO_FETCH
\* positions of the aggregator list whose id is not in the exclude set, in
\* list order; when the request fails it returns the empty sequence, and the
\* run goes on to prune_processed_ids.
C13_step ==
    (pc = "fetched" /\ pc' # "fetched") =>
        /\ IF top_stories.error
           THEN story_ids' = <<>>
           ELSE LET A == top_stories.ids
                    K == Kept(A, processed_ids)
                IN  /\ Len(story_ids') = Min(MAX_STORIES_TO_FETCH, Cardinality(K))
                    /\ \A k \in 1 .. Len(story_ids') :
                           \E j \in K : /\ Cardinality({m \in K : m <= j}) = k
                                        /\ story_ids'[k] = str(A[j])
        /\ pc' = IF story_ids' = <<>> THEN "prune" ELSE "loop"

C13_Selection == [][C13_step]_vars

\* candidates were selected, as many as allowed, from a list from which the
\* dedup set excluded ids
C13_Witness ==
    /\ pc = "loop"
    /\ Cardinality(excluded) >= 2
    /\ Len(story_ids) = MAX_STORIES_TO_FETCH

\* this run's update_rss_feed has written its document
Written == pc \in {"prune", "done"} /\ load_result # "none"

\* C14: a missing feed file, or one whose load raises, does not end the run:
\* update_rss_feed goes on from an empty document, so that the document it
\* builds and writes is the batch alone, newest first; when the load
\* succeeds the loaded entries lie beneath the batch in the document built
\* (which is the document written whenever the cap does not make the trim cut).
C14_LoadBestEffort ==
    /\ (load_result # "none" /\ ~rssAtStart.exists) => load_result = "absent"
    /\ (load_result # "none" /\ rssAtStart.exists /\ ~rssAtStart.parsable)
           => load_result = "failed"
    /\ load_result \in {"absent", "failed"} =>
           /\ merged = Reverse(newly_summarized_stories)
           /\ Written => rssFile = [exists |-> TRUE, parsable |-> TRUE,
                                    entries |-> Reverse(newly_summarized_stories)]
    /\ load_result = "loaded" =>
           /\ merged = Reverse(newly_summarized_stories) \o rssAtStart.entries
           /\ (Written /\ Len(merged) <= MAX_FEED_ENTRIES) =>
                  rssFile = [exists |-> TRUE, parsable |-> TRUE, entries |-> merged]

\* a run ended whose load of a non-empty document had raised
C14_Witness ==
    /\ pc = "done"
    /\ load_result = "failed"
    /\ rssAtStart.parsable
    /\ rssAtStart.entries # <<>>
    /\ rssFile.parsable

\* the ids of the batch, and their lines in the dedup log
BatchIds == [k \in DOMAIN newly_summarized_stories |-> newly_summarized_stories[k].id]
BatchLines == [k \in DOMAIN newly_summarized_stories |->
                  IdLine(newly_summarized_stories[k].id)]

\* C15 as stated: a run whose prune_processed_ids raised ends with the dedup
\* log holding exactly the lines it held before the prune.
C15_Original ==
    (pc = "done" /\ prune_raised) => idsFile.lines = idsAtStart.lines \o BatchLines

\* C16 as stated: whenever the feed file is there, what a reader finds in it
\* is a complete document.
C16_Original == rssFile.exists => rssFile.parsable

RECURSIVE Picked(_, _)
\* the elements of ids at the positions where flags is TRUE
Picked(ids, flags) ==
    IF flags = <<>> THEN <<>>
    ELSE (IF Head(flags) THEN <<Head(ids)>> ELSE <<>>) \o Picked(Tail(ids), Tail(flags))

\* C17: throughout a run the ids of the batch are those of the candidates
\* processed so far that had a url and a non-empty text, in order, and the
\* lines the run appended to the dedup log are the lines of these ids; after a
\* prune that raised nothing they are the last lines of the log.
C17_BatchMatchesLog ==
    /\ pc \in {"loop", "publish", "writing", "prune", "done", "aborted"} =>
           /\ Len(fit) = i
           /\ BatchIds = Picked(FirstN(story_ids, i), fit)
    /\ pc \in {"loop", "publish", "writing", "prune", "aborted"} =>
           /\ IsPrefix(idsAtStart.lines, idsFile.lines)
           /\ DropN(idsFile.lines, Len(idsAtStart.lines)) = BatchLines
    /\ (pc = "done" /\ ~prune_raised) =>
           /\ Len(idsFile.lines) >= Len(BatchLines)
           /\ LastN(idsFile.lines, Len(BatchLines)) = BatchLines

\* a run of two candidates ended in which only the second had a url and a text
C17_Witness ==
    /\ pc = "done"
    /\ ~prune_raised
    /\ fit = <<FALSE, TRUE>>
    /\ BatchIds = <<story_ids[2]>>
    /\ idsAtStart.lines # <<>>

\* C18: after the candidate at position k of n the run has slept k times when
\* k < n and n - 1 times when k = n; a run without candidates never sleeps.
C18_Delays ==
    /\ pc = "fetched" => sleeps = 0
    /\ pc = "loop" => sleeps = i /\ i < Len(story_ids)
    /\ pc \in {"publish", "writing", "prune", "done", "aborted"} =>
           sleeps = IF story_ids = <<>> THEN 0 ELSE Len(story_ids) - 1

\* a run of two candidates, the first of them skipped, ended after one delay
C18_Witness ==
    /\ pc = "done"
    /\ Len(story_ids) = 2
    /\ fit = <<FALSE, TRUE>>
    /\ sleeps = 1

\* C19 as stated: at the end of a run every id the run appended to the dedup
\* log is still in the log.
C19_Original == pc = "done" => \A k \in DOMAIN BatchLines : BatchLines[k] \in Range(idsFile.lines)

\* C20: when no aggregator list repeats an id, no two lines of the dedup log
\* are the same, and the log has as many lines as the set loaded from it has ids.
C20_NoDuplicates ==
    /\ NoRepeat(idsFile.lines)
    /\ Cardinality(get_processed_ids(idsFile)) = Len(idsFile.lines)

\* a second run ended with three ids in the log, having been offered an id
\* that was already there
C20_Witness ==
    /\ pc = "done"
    /\ run = 2
    /\ excluded # {}
    /\ newly_summarized_stories # <<>>
    /\ Len(idsFile.lines) = 3

====
